---- MODULE Spec2Model ----
(***************************************************************************)
(* The Torque type algebra of src/torque/types.h: the parent chains of     *)
(* the declared types, the subtype relation, CommonSupertype, the          *)
(* UnionType member set with Extend / FromType / Normalize, and the        *)
(* signature compatibility check.                                          *)
(*                                                                         *)
(* A `const Type*` is modelled by a record with a `kind` field.  A         *)
(* declared (non-union) type is [kind, id]; `id` stands for the address    *)
(* of the one object the declaration layer created.  A UnionType is        *)
(* [kind, types_, parent_].                                                *)
(***************************************************************************)
EXTENDS Integers, Sequences, FiniteSets

VARIABLES
    u,        \* the UnionType being built
    v,        \* a second UnionType, the argument of u.Extend(v)
    prev,     \* u before the last call on it
    lastOp,   \* the last call
    lastArg,  \* its argument
    alt,      \* the member-by-member result kept beside u.Extend(v)
    x, y, z,  \* the types of a subtype / CommonSupertype query
    res,      \* the answers to that query
    to,       \* the ParameterTypes of a declaration
    from,     \* the TypeVector of a call site
    compat    \* the answer of IsCompatibleSignature(to, from)

vars == <<u, v, prev, lastOp, lastArg, alt, x, y, z, res, to, from, compat>>

unionVars == <<u, v, prev, lastOp, lastArg, alt>>

queryVars == <<x, y, z, res>>

signatureVars == <<to, from, compat>>

\* the most members v may have before it is extended again
MaxOtherMembers == 3

\* the Extend calls behind the unions a query is asked about
MaxPoolExtends == 2

\* the longest declared parameter list and the longest argument list
MaxParams == 2

MaxArgs == 3

----------------------------------------------------------------------------
(* TypeBase::Kind and the declared types.                                  *)

Kinds == {"kAbstractType", "kFunctionPointerType", "kUnionType"}

nullptr == [kind |-> "nullptr"]

\* The declared hierarchy: Smi <: Number <: Object, HeapNumber <: Number,
\* Code <: Object, never <: Object, and one function pointer type whose
\* parent is Code.
AbstractNames == {"Object", "Number", "Smi", "HeapNumber", "Code", "never"}

FunctionPointerNames == {"BuiltinPtr"}

AbstractType(name) == [kind |-> "kAbstractType", id |-> name]

FunctionPointerType(name) == [kind |-> "kFunctionPointerType", id |-> name]

NonUnionTypes ==
    {AbstractType(n) : n \in AbstractNames}
        \cup {FunctionPointerType(n) : n \in FunctionPointerNames}

parent_ ==
    [n \in AbstractNames \cup FunctionPointerNames |->
        CASE n = "Object"     -> nullptr
          [] n = "Number"     -> AbstractType("Object")
          [] n = "Smi"        -> AbstractType("Number")
          [] n = "HeapNumber" -> AbstractType("Number")
          [] n = "Code"       -> AbstractType("Object")
          [] n = "never"      -> AbstractType("Object")
          [] n = "BuiltinPtr" -> AbstractType("Code")]

IsUnionType(t) == t.kind = "kUnionType"

IsAbstractType(t) == t.kind = "kAbstractType"

IsFunctionPointerType(t) == t.kind = "kFunctionPointerType"

\* Type::parent()
parent(t) == IF IsUnionType(t) THEN t.parent_ ELSE parent_[t.id]

\* Type::IsNever(): the abstract type named NEVER_TYPE_STRING
IsNever(t) == IsAbstractType(t) /\ t.id = "never"

----------------------------------------------------------------------------
(* The total order of std::set<const Type*, TypeLess>.                     *)

\* MangledName order: "AT" + name for abstract types, function pointer
\* types after them.
MangledOrder ==
    <<"Code", "HeapNumber", "Number", "Object", "Smi", "never", "BuiltinPtr">>

Rank(t) == CHOOSE i \in 1..Len(MangledOrder) : MangledOrder[i] = t.id

TypeLess(a, b) == Rank(a) < Rank(b)

\* *types_.begin() of a non-empty set
Begin(S) == CHOOSE m \in S : \A o \in S : o = m \/ TypeLess(m, o)

\* the members in iteration order
RECURSIVE InOrder(_)
InOrder(S) ==
    IF S = {} THEN <<>> ELSE <<Begin(S)>> \o InOrder(S \ {Begin(S)})

----------------------------------------------------------------------------
(* The subtype relation.                                                   *)

RECURSIVE ChainReaches(_, _)
ChainReaches(subtype, supertype) ==
    IF subtype = nullptr THEN FALSE
    ELSE IF subtype = supertype THEN TRUE
    ELSE ChainReaches(parent(subtype), supertype)

RECURSIVE IsSubtypeOf(_, _)

\* UnionType::IsSubtypeOf, mutated: one member suffices
UnionIsSubtypeOfAny(U, other) ==
    \E member \in U.types_ : IsSubtypeOf(member, other)

\* UnionType::IsSubtypeOf: every member is a subtype of other
UnionIsSubtypeOf(U, other) ==
    \A member \in U.types_ : IsSubtypeOf(member, other)

\* UnionType::IsSupertypeOf, mutated: other must be below every member
UnionIsSupertypeOfAll(U, other) ==
    \A member \in U.types_ : IsSubtypeOf(other, member)

\* UnionType::IsSupertypeOf: other is a subtype of some member
UnionIsSupertypeOf(U, other) ==
    \E member \in U.types_ : IsSubtypeOf(other, member)

\* Type::IsSubtypeOf: a union supertype is asked whether it covers this
\* type; otherwise the parent chain is walked.
TypeIsSubtypeOf(t, supertype) ==
    IF IsUnionType(supertype) THEN UnionIsSupertypeOf(supertype, t)
    ELSE ChainReaches(t, supertype)

\* the virtual call t->IsSubtypeOf(other)
IsSubtypeOf(t, other) ==
    IF IsUnionType(t) THEN UnionIsSubtypeOf(t, other)
    ELSE TypeIsSubtypeOf(t, other)

----------------------------------------------------------------------------
(* Depth and CommonSupertype.                                              *)

RECURSIVE Depth(_)
Depth(t) == IF parent(t) = nullptr THEN 0 ELSE 1 + Depth(parent(t))

RECURSIVE Hops(_, _)
Hops(t, n) == IF n = 0 THEN t ELSE Hops(parent(t), n - 1)

RECURSIVE LockStep(_, _)
LockStep(a, b) ==
    IF a = b THEN a
    ELSE IF parent(a) = nullptr \/ parent(b) = nullptr THEN a
    ELSE LockStep(parent(a), parent(b))

\* CommonSupertype, mutated: the depths are not equalized
CommonSupertypeNoEqualize(a, b) == LockStep(a, b)

\* Type::CommonSupertype: advance the deeper chain to the depth of the
\* other, then both in lock-step until they meet.
CommonSupertype(a, b) ==
    LET diff == Depth(a) - Depth(b)
    IN  LockStep(Hops(a, IF diff > 0 THEN diff ELSE 0),
                 Hops(b, IF diff < 0 THEN 0 - diff ELSE 0))

----------------------------------------------------------------------------
(* UnionType.                                                              *)

\* explicit UnionType(const Type* t)
UnionType(t) == [kind |-> "kUnionType", types_ |-> {t}, parent_ |-> t]

\* UnionType::FromType
FromType(t) == IF IsUnionType(t) THEN t ELSE UnionType(t)

\* the process after the invalidated set iterator was followed into memory
\* that is no longer a tree node
Crashed == [kind |-> "crashed"]

\* UnionType::operator==
UnionEquals(U, other) == U.types_ = other.types_

\* UnionType::GetSingleMember, nullptr standing for base::nullopt
GetSingleMember(U) ==
    IF Cardinality(U.types_) = 1 THEN Begin(U.types_) ELSE nullptr

\* the DCHECK_EQ of GetSingleMember
GetSingleMemberDcheck(U) ==
    Cardinality(U.types_) = 1 => Begin(U.types_) = parent(U)

\* UnionType::Normalize
Normalize(U) == IF Cardinality(U.types_) = 1 THEN parent(U) ELSE U

\* The erase loop of Extend.  types_.erase(member) invalidates the iterator
\* the range-for holds, and the loop then increments it: from the first
\* erasure on the traversal is undefined.  The members up to and including
\* the first subsumed one are handled as written; of the later subsumed
\* members any subset may be visited (and erased), or the walk leaves the
\* tree and the process dies.
EraseOutcomes(types, t) ==
    LET subsumed == {member \in types : IsSubtypeOf(member, t)}
    IN  IF subsumed = {} THEN {types}
        ELSE {types \ E : E \in {E \in SUBSET subsumed : Begin(subsumed) \in E}}

\* the else branch of Extend, mutated: no early return for a covered type
ExtendNonUnionNoCoverCheck(U, t) ==
    {[kind |-> "kUnionType", types_ |-> kept \cup {t},
      parent_ |-> CommonSupertype(parent(U), t)] :
        kept \in EraseOutcomes(U.types_, t)}

\* the else branch of Extend, mutated: the parent is not recomputed
ExtendNonUnionKeepParent(U, t) ==
    IF IsSubtypeOf(t, U) THEN {U}
    ELSE {[kind |-> "kUnionType", types_ |-> kept \cup {t},
           parent_ |-> parent(U)] : kept \in EraseOutcomes(U.types_, t)}

\* the else branch of Extend, mutated: the new member becomes the parent
ExtendNonUnionParentIsArg(U, t) ==
    IF IsSubtypeOf(t, U) THEN {U}
    ELSE {[kind |-> "kUnionType", types_ |-> kept \cup {t},
           parent_ |-> t] : kept \in EraseOutcomes(U.types_, t)}

\* the else branch of Extend: the set of results the call can have
ExtendNonUnion(U, t) ==
    IF IsSubtypeOf(t, U) THEN {U}
    ELSE {[kind |-> "kUnionType", types_ |-> kept \cup {t},
           parent_ |-> CommonSupertype(parent(U), t)] :
              kept \in EraseOutcomes(U.types_, t)}
         \cup (IF \E member \in U.types_ : IsSubtypeOf(member, t)
               THEN {Crashed} ELSE {})

\* Extend(member) for each element of a sequence of non-union types, from
\* each of the unions in Us
RECURSIVE ExtendEach(_, _)
ExtendEach(Us, members) ==
    IF members = <<>> THEN Us
    ELSE ExtendEach(
            UNION {IF U = Crashed THEN {Crashed}
                   ELSE ExtendNonUnion(U, Head(members)) : U \in Us},
            Tail(members))

\* UnionType::Extend
Extend(U, t) ==
    IF IsUnionType(t) THEN ExtendEach({U}, InOrder(t.types_))
    ELSE ExtendNonUnion(U, t)

----------------------------------------------------------------------------
(* Assignability and signature compatibility.                              *)

\* IsAssignableFrom: a subtype is assignable, and never is assignable to
\* everything
IsAssignableFrom(to_, from_) == IsSubtypeOf(from_, to_) \/ IsNever(from_)

\* struct ParameterTypes
ParameterTypes(types, var_args) == [types |-> types, var_args |-> var_args]

\* the pairwise walk of IsCompatibleSignature from position i
RECURSIVE SignatureWalk(_, _, _)
SignatureWalk(to_, from_, i) ==
    IF i > Len(from_) THEN i > Len(to_.types)
    ELSE IF i > Len(to_.types) THEN to_.var_args
    ELSE IF ~IsAssignableFrom(to_.types[i], from_[i]) THEN FALSE
    ELSE SignatureWalk(to_, from_, i + 1)

\* the walk, mutated: running out of arguments is not a mismatch
RECURSIVE SignatureWalkShort(_, _, _)
SignatureWalkShort(to_, from_, i) ==
    IF i > Len(from_) THEN TRUE
    ELSE IF i > Len(to_.types) THEN to_.var_args
    ELSE IF ~IsAssignableFrom(to_.types[i], from_[i]) THEN FALSE
    ELSE SignatureWalkShort(to_, from_, i + 1)

\* IsCompatibleSignature, mutated
IsCompatibleSignatureShort(to_, from_) == SignatureWalkShort(to_, from_, 1)

\* IsCompatibleSignature
IsCompatibleSignature(to_, from_) == SignatureWalk(to_, from_, 1)

----------------------------------------------------------------------------
(* The union under construction.                                           *)

NoType == [kind |-> "none"]

NoResult == [kind |-> "none"]

MemberOrders(S) ==
    {s \in [1..Cardinality(S) -> S] : \A i, j \in 1..Cardinality(S) :
        i # j => s[i] # s[j]}

UnionIdle ==
    /\ u = NoType /\ v = NoType /\ prev = NoType
    /\ lastOp = "none" /\ lastArg = NoType /\ alt = NoType

QueryIdle == x = NoType /\ y = NoType /\ z = NoType /\ res = NoResult

SignatureIdle == to = NoType /\ from = <<>> /\ compat = NoResult

Init ==
    /\ \E t \in NonUnionTypes : u = FromType(t)
    /\ \E t \in NonUnionTypes : v = FromType(t)
    /\ prev = NoType
    /\ lastOp = "FromType"
    /\ lastArg = NoType
    /\ alt = NoType
    /\ QueryIdle
    /\ SignatureIdle

\* u = UnionType::FromType(v): the copy of a union
CopyUnion ==
    /\ u # Crashed /\ v # Crashed
    /\ u' = FromType(v)
    /\ prev' = NoType
    /\ lastOp' = "FromType"
    /\ lastArg' = v
    /\ alt' = NoType
    /\ UNCHANGED <<v, queryVars, signatureVars>>

\* u.Extend(t), t a declared type
ExtendType ==
    /\ u # Crashed
    /\ \E t \in NonUnionTypes :
          /\ u' \in Extend(u, t)
          /\ lastArg' = t
    /\ prev' = u
    /\ lastOp' = "Extend"
    /\ alt' = NoType
    /\ UNCHANGED <<v, queryVars, signatureVars>>

\* v.Extend(t), t a declared type
ExtendOther ==
    /\ v # Crashed
    /\ Cardinality(v.types_) < MaxOtherMembers
    /\ \E t \in NonUnionTypes : v' \in Extend(v, t)
    /\ prev' = NoType
    /\ lastOp' = "ExtendOther"
    /\ lastArg' = NoType
    /\ alt' = NoType
    /\ UNCHANGED <<u, queryVars, signatureVars>>

\* u.Extend(v); alt is what Extend(m) for each member m of v, in some
\* order, gives from the same u
ExtendUnion ==
    /\ u # Crashed /\ v # Crashed
    /\ u' \in Extend(u, v)
    /\ \E order \in MemberOrders(v.types_) : alt' \in ExtendEach({u}, order)
    /\ prev' = u
    /\ lastOp' = "ExtendUnion"
    /\ lastArg' = v
    /\ UNCHANGED <<v, queryVars, signatureVars>>

Next == CopyUnion \/ ExtendType \/ ExtendOther \/ ExtendUnion

Spec == Init /\ [][Next]_vars

----------------------------------------------------------------------------
(* Queries on the subtype relation and CommonSupertype.                    *)

\* the unions FromType and at most n Extend calls build
RECURSIVE ReachableUnions(_)
ReachableUnions(n) ==
    IF n = 0 THEN {UnionType(t) : t \in NonUnionTypes}
    ELSE LET R == ReachableUnions(n - 1)
         IN  R \cup {U \in UNION {Extend(W, t) : W \in R, t \in NonUnionTypes} :
                        IsUnionType(U)}

TypePool == NonUnionTypes \cup ReachableUnions(MaxPoolExtends)

InitQuery ==
    /\ x \in TypePool /\ y \in TypePool /\ z \in TypePool
    /\ res = NoResult
    /\ UnionIdle
    /\ SignatureIdle

Query ==
    /\ res = NoResult
    /\ res' = [kind |-> "answers",
               xx |-> IsSubtypeOf(x, x),
               xy |-> IsSubtypeOf(x, y),
               yz |-> IsSubtypeOf(y, z),
               xz |-> IsSubtypeOf(x, z),
               common |-> CommonSupertype(x, y)]
    /\ UNCHANGED <<x, y, z, unionVars, signatureVars>>

NextQuery == Query

SpecQuery == InitQuery /\ [][NextQuery]_vars

----------------------------------------------------------------------------
(* Call sites checked against declarations.                                *)

SignatureTypes ==
    {AbstractType("Object"), AbstractType("Number"), AbstractType("Smi"),
     AbstractType("never")}

SeqsUpTo(S, n) == UNION {[1..k -> S] : k \in 0..n}

InitSignature ==
    /\ \E types \in SeqsUpTo(SignatureTypes, MaxParams), var_args \in BOOLEAN :
          to = ParameterTypes(types, var_args)
    /\ from \in SeqsUpTo(SignatureTypes, MaxArgs)
    /\ compat = NoResult
    /\ UnionIdle
    /\ QueryIdle

CheckSignature ==
    /\ compat = NoResult
    /\ compat' = [kind |-> "answer",
                  compatible |-> IsCompatibleSignature(to, from)]
    /\ UNCHANGED <<to, from, unionVars, queryVars>>

NextSignature == CheckSignature

SpecSignature == InitSignature /\ [][NextSignature]_vars

----------------------------------------------------------------------------
(* Properties of the union under construction (under Spec).                *)

\* no retained member is a subtype of a different retained member
NoRedundantMember(U) ==
    \A m1, m2 \in U.types_ : m1 # m2 => ~IsSubtypeOf(m1, m2)

\* the parent is a supertype of every retained member
ParentCoversMembers(U) == \A m \in U.types_ : IsSubtypeOf(m, parent(U))

\* C1: after every Extend call no retained member is a subtype of a
\* different retained member, and parent is a supertype of every retained
\* member.
C1_ExtendKeepsInvariant ==
    (lastOp \in {"Extend", "ExtendUnion"} /\ u # Crashed)
        => NoRedundantMember(u) /\ ParentCoversMembers(u)

\* C5: Extend(X) with a non-union X that the union already covers leaves
\* the member set and the parent unchanged.
C5_CoveredExtendIsNoOp ==
    (lastOp = "Extend" /\ IsSubtypeOf(lastArg, prev)) => u = prev

\* an Extend call with a type strictly below a member of a union of
\* several members has returned
C5_Witness ==
    /\ lastOp = "Extend"
    /\ IsSubtypeOf(lastArg, prev)
    /\ lastArg \notin prev.types_
    /\ Cardinality(prev.types_) > 1

\* C6: Extend(t) with a non-union t that is not covered leaves exactly the
\* old members that are not subtypes of t, plus t, and sets the parent to
\* CommonSupertype(old parent, t).
C6_ExtendResult ==
    (lastOp = "Extend" /\ ~IsSubtypeOf(lastArg, prev) /\ u # Crashed)
        => /\ u.types_ =
                {m \in prev.types_ : ~IsSubtypeOf(m, lastArg)} \cup {lastArg}
           /\ u.parent_ = CommonSupertype(prev.parent_, lastArg)

\* C7: u.Extend(v) ends with the member set that Extend(m) for each member
\* m of v, in any order, ends with, and no member is a union.
C7_FlatteningOrderIndependent ==
    (lastOp = "ExtendUnion" /\ u # Crashed /\ alt # Crashed)
        => /\ u.types_ = alt.types_
           /\ \A m \in u.types_ : ~IsUnionType(m)

\* C8: a union of one member has that member as its parent, so Normalize
\* returns the member and the DCHECK of GetSingleMember holds; a union of
\* several members normalizes to itself and has no single member; and
\* FromType(T).Normalize() is T.
C8_SingleMemberIsParent ==
    /\ u # Crashed =>
        /\ Cardinality(u.types_) = 1 =>
              /\ parent(u) = Begin(u.types_)
              /\ Normalize(u) = Begin(u.types_)
              /\ GetSingleMember(u) = Begin(u.types_)
              /\ GetSingleMemberDcheck(u)
        /\ Cardinality(u.types_) > 1 =>
              /\ Normalize(u) = u
              /\ GetSingleMember(u) = nullptr
    /\ \A T \in NonUnionTypes : Normalize(FromType(T)) = T

\* Extend has just absorbed the members of a union into one supertype
C8_Witness ==
    /\ lastOp = "Extend"
    /\ u # Crashed
    /\ Cardinality(u.types_) = 1
    /\ Cardinality(prev.types_) > 1

\* the lowest declared type above every type of S
LowestCommonSupertype(S) ==
    CHOOSE p \in NonUnionTypes :
        /\ \A m \in S : ChainReaches(m, p)
        /\ \A q \in NonUnionTypes :
              (\A m \in S : ChainReaches(m, q)) => ChainReaches(p, q)

\* C10: the parent is the lowest common supertype of the retained members,
\* so unions equal under operator== have the same parent.
C10_ParentDeterminedByMembers ==
    /\ u # Crashed => u.parent_ = LowestCommonSupertype(u.types_)
    /\ v # Crashed => v.parent_ = LowestCommonSupertype(v.types_)
    /\ (u # Crashed /\ v # Crashed /\ UnionEquals(u, v))
          => u.parent_ = v.parent_

\* an Extend call has just made u equal to the separately built v, both of
\* several members
C10_Witness ==
    /\ lastOp = "Extend"
    /\ u # Crashed /\ v # Crashed
    /\ u # prev
    /\ UnionEquals(u, v)
    /\ Cardinality(u.types_) > 1

----------------------------------------------------------------------------
(* Properties of the subtype relation and CommonSupertype (SpecQuery).     *)

StrictSubtype(s, t) == IsSubtypeOf(s, t) /\ ~IsSubtypeOf(t, s)

C3_Reflexive == res # NoResult => res.xx

\* the query was about a union of several members
C3_Witness ==
    /\ res # NoResult
    /\ IsUnionType(x)
    /\ Cardinality(x.types_) > 1

\* C4: if A.IsSubtypeOf(B) and B.IsSubtypeOf(C) then A.IsSubtypeOf(C).
C4_Transitive == (res # NoResult /\ res.xy /\ res.yz) => res.xz

\* the premises held of three different unions
C4_Witness ==
    /\ res # NoResult
    /\ res.xy /\ res.yz
    /\ IsUnionType(x) /\ IsUnionType(y) /\ IsUnionType(z)
    /\ x # y /\ y # z /\ x # z

----------------------------------------------------------------------------
(* Properties of IsCompatibleSignature (SpecSignature).                    *)

\* C9: IsCompatibleSignature is true exactly when the supplied count is at
\* least the declared count, equals it unless var_args is set, and every
\* argument of the fixed prefix is assignable to its parameter.
C9_CompatibleSignature ==
    compat # NoResult =>
        compat.compatible =
            (/\ Len(from) >= Len(to.types)
             /\ (to.var_args \/ Len(from) = Len(to.types))
             /\ \A i \in 1..Len(to.types) :
                   i <= Len(from) => IsAssignableFrom(to.types[i], from[i]))

\* a variadic declaration of two parameters was given one argument and
\* refused
C9_Witness ==
    /\ compat # NoResult
    /\ to.var_args
    /\ Len(to.types) = 2
    /\ Len(from) = 1
    /\ ~compat.compatible

====
